---- MODULE Spec2Model ----
(***************************************************************************)
(* Verification model of the tank_dynamics simulation kernel:              *)
(* the anti-windup PID controller (tank_sim::PIDController) and the        *)
(* construction of the simulation orchestrator (tank_sim::Simulator).      *)
(*                                                                         *)
(* Numbers.  The code computes in double.  The model computes exactly, on  *)
(* a grid on which every double operation of the code is exact:            *)
(*   - error, error_dot, dt, integral_state, max_integral, Kc, tau_I and   *)
(*     tau_D are whole numbers;                                            *)
(*   - bias, min_output, max_output and the value returned by compute are  *)
(*     counted in units of 1/SCALE, SCALE being the least common multiple  *)
(*     of the integral time constants, so that (1/tau_I) * integral_state  *)
(*     is a whole number of such units.                                    *)
(* NaN and infinities are outside the model.                               *)
(*                                                                         *)
(* Two definitions of PIDController's constructor and compute exist in the *)
(* sources (src/src/constants.h:408-457 and src/src/pid_controller.cpp:    *)
(* 6-39).  Which one a build links is recorded in build.pidSrc.            *)
(* std::clamp(v, lo, hi) with hi < lo has undefined behaviour; what the    *)
(* build's standard library does then is recorded in build.clampImpl.      *)
(***************************************************************************)
EXTENDS Integers, Sequences, FiniteSets, TLC

\* ------------------------------------------------------------------ bounds
MaxTauI == 2
MaxErr == 1
MaxIntegral == 2
MaxSteps == 2

\* --------------------------------------------------------------- arithmetic
Abs(x) == IF x < 0 THEN -x ELSE x
Min(a, b) == IF a < b THEN a ELSE b
Max(a, b) == IF a < b THEN b ELSE a

RECURSIVE Gcd(_, _)
Gcd(a, b) == IF b = 0 THEN a ELSE Gcd(b, a % b)

RECURSIVE LcmUpTo(_)
LcmUpTo(n) == IF n <= 1 THEN 1 ELSE (LcmUpTo(n - 1) * n) \div Gcd(LcmUpTo(n - 1), n)

\* Output-side quantities are counted in units of 1/SCALE.
SCALE == LcmUpTo(MaxTauI)

\* SCALE * (1.0 / t) for a non-zero time constant t that divides SCALE.
ScaledInverse(t) == IF t > 0 THEN SCALE \div t ELSE -(SCALE \div (-t))

\* ------------------------------------------------------------ input domains
KcSet == {-1, 1}
TauISet == -1 .. MaxTauI
TauDSet == {-1, 0, 1}
GainsSet == [Kc : KcSet, tau_I : TauISet, tau_D : TauDSet]
BiasSet == {SCALE \div 2}
LimitSet == {0, SCALE}
MaxIntegralSet == {-1, 0, MaxIntegral}
ErrSet == -MaxErr .. MaxErr
ErrDotSet == {0, 1}
DtSet == {1, 2}

PidSources == {"constants.h", "pid_controller.cpp"}
ClampImpls == {"minmax", "ternary", "assert"}

VARIABLES build, alive, pid, call, given, fresh, crashed, simAlive, sim, simCall,
          simSteps, gsl, stepper, stepCall, tank, pair, solo, pairCall, conv, run

pidVars == <<alive, pid, call, given, fresh, crashed>>
simVars == <<simAlive, sim, simCall, simSteps, gsl>>
kernelVars == <<stepper, stepCall, tank, conv>>
pairVars == <<pair, solo, pairCall>>
runVars == <<run>>
vars == <<build, alive, pid, call, given, fresh, crashed, simAlive, sim, simCall,
          simSteps, gsl, stepper, stepCall, tank, pair, solo, pairCall, conv, run>>

\* ------------------------------------------------------------- std::clamp
\* libstdc++ computes min(max(v, lo), hi), libc++ the two-comparison
\* conditional; both agree when lo <= hi.  With hi < lo the call is
\* undefined: a hardened build ("assert") aborts the process instead.
Clamp(v, lo, hi) ==
    IF build.clampImpl = "ternary"
    THEN IF v < lo THEN lo ELSE IF hi < v THEN hi ELSE v
    ELSE Min(Max(v, lo), hi)

ClampAborts(lo, hi) == build.clampImpl = "assert" /\ hi < lo

\* ------------------------------------------------------------ PIDController
NoGains == [Kc |-> 0, tau_I |-> 0, tau_D |-> 0]
NoPID == [gains |-> NoGains, bias |-> 0, min_output |-> 0, max_output |-> 0,
          max_integral |-> 0, integral_state |-> 0]

\* The member initialiser list of the constructor.
NewPID(gains, bias, min_output, max_output, max_integral) ==
    [gains |-> gains, bias |-> bias, min_output |-> min_output,
     max_output |-> max_output, max_integral |-> max_integral,
     integral_state |-> 0]

\* The constructor's validation: the message of the std::invalid_argument it
\* throws, or "none".  pid_controller.cpp's constructor has an empty body.
PIDValidate(gains, min_output, max_output, max_integral) ==
    IF build.pidSrc = "pid_controller.cpp" THEN "none"
    ELSE IF gains.tau_I < 0 THEN "Integral time constant (tau_I) cannot be negative"
    ELSE IF gains.tau_D < 0 THEN "Derivative time constant (tau_D) cannot be negative"
    ELSE IF min_output > max_output THEN "min_output must be <= max_output"
    ELSE IF max_integral < 0 THEN "max_integral must be non-negative"
    ELSE "none"

\* A raw value without the integral term.
OutputUnsatProportional(c, error, error_dot) ==
    c.bias + c.gains.Kc * (SCALE * error + SCALE * (c.gains.tau_D * error_dot))

\* Steps 1-4 of compute: output_unsat, in units of 1/SCALE.
OutputUnsat(c, error, error_dot) ==
    LET p_term == SCALE * error
        i_term == IF c.gains.tau_I # 0
                  THEN ScaledInverse(c.gains.tau_I) * c.integral_state
                  ELSE 0
        d_term == SCALE * (c.gains.tau_D * error_dot)
    IN  c.bias + c.gains.Kc * (p_term + i_term + d_term)

\* Step 5 of compute.
Output(c, error, error_dot) ==
    Clamp(OutputUnsat(c, error, error_dot), c.min_output, c.max_output)

\* Step 6: does this call advance the integral?  constants.h tests the raw
\* value against the limits, pid_controller.cpp compares it with the clamped
\* value.
Accumulates(c, error, error_dot) ==
    LET output_unsat == OutputUnsat(c, error, error_dot)
    IN  IF build.pidSrc = "constants.h"
        THEN ~(output_unsat < c.min_output \/ output_unsat > c.max_output)
        ELSE output_unsat = Output(c, error, error_dot)

\* An integral state advanced on every call, saturated or not (no conditional
\* integration).
NextIntegralUnconditional(c, error, error_dot, dt) ==
    Clamp(c.integral_state + error * dt, -c.max_integral, c.max_integral)

\* The integral state compute leaves behind.
NextIntegral(c, error, error_dot, dt) ==
    IF Accumulates(c, error, error_dot)
    THEN Clamp(c.integral_state + error * dt, -c.max_integral, c.max_integral)
    ELSE c.integral_state

\* Does this call reach a std::clamp whose range is ill-formed, in a build
\* that aborts on it?
ComputeAborts(c, error, error_dot) ==
    \/ ClampAborts(c.min_output, c.max_output)
    \/ Accumulates(c, error, error_dot) /\ ClampAborts(-c.max_integral, c.max_integral)

PIDCompute(c, error, error_dot, dt) ==
    [c EXCEPT !.integral_state = NextIntegral(c, error, error_dot, dt)]

\* A setGains that clears the integral on retune (no bumpless transfer).
PIDSetGainsClearing(c, gains) == [c EXCEPT !.gains = gains, !.integral_state = 0]

PIDSetGains(c, gains) == [c EXCEPT !.gains = gains]

PIDSetOutputLimits(c, min_val, max_val) ==
    [c EXCEPT !.min_output = min_val, !.max_output = max_val]

\* A reset that halves the integral instead of clearing it.
PIDResetHalving(c) == [c EXCEPT !.integral_state = c.integral_state - (c.integral_state \div 2)]

PIDReset(c) == [c EXCEPT !.integral_state = 0]

PIDGetIntegralState(c) == c.integral_state

\* --------------------------------------------------------------- call record
\* What the caller of the last operation saw: the operation and its
\* arguments, the value returned (ret), the exception message (threw), and
\* the integral state the operation started from (before).
NoArgs == [error |-> 0, error_dot |-> 0, dt |-> 0]
NoCfg == [gains |-> NoGains, bias |-> 0, min_output |-> 0, max_output |-> 0,
          max_integral |-> 0]
NoCall == [op |-> "none", args |-> NoArgs, cfg |-> NoCfg, ret |-> 0,
           threw |-> "none", before |-> 0]

\* What the caller has configured: the constructor's arguments, overwritten
\* by the arguments of every later setGains and setOutputLimits.
NoGiven == NoCfg

\* The controller compared with in the reset equivalence: a controller
\* constructed afresh, at the time of the last reset(), from the gains, bias
\* and limits the reset controller holds, and given the same compute calls
\* since.  from is the integral state the reset cleared.
NoFresh == [on |-> FALSE, pid |-> NoPID, ret |-> 0, from |-> 0]

\* ------------------------------------------------- sequences of compute calls
\* The raw value of compute lies outside the output limits.
Saturated(c, error, error_dot) ==
    \/ OutputUnsat(c, error, error_dot) < c.min_output
    \/ OutputUnsat(c, error, error_dot) > c.max_output

\* Output limits that never bind (the -1000.0 and 1000.0 of the anti-windup
\* test): no raw value of the domains below reaches them.
WideLimit == SCALE * (MaxErr + MaxIntegral + 2)
RunLimits == {<<0, SCALE>>, <<-WideLimit, WideLimit>>}
RunErrDotSet == {-1, 0, 1}
RunGainsSet == {g \in GainsSet : g.tau_D >= 0}

\* One compute call of a sequence: its arguments, the accumulator it started
\* from (before), the raw value (raw) and the value returned (ret).
NoRunCall == [made |-> FALSE, error_dot |-> 0, dt |-> 0, before |-> 0,
              raw |-> 0, ret |-> 0]

\* A controller under a sequence of compute calls, as the tests drive it.
\*   pid      the controller;
\*   twin     a controller constructed from the same arguments but with
\*            limits that never bind, given the same calls, kept for as long
\*            as every call of the sequence has saturated pid (saturated);
\*   phase    "free": any error on every call; "hold": every call has the
\*            same error (error), from the call that began the hold on;
\*   clean    no call of the hold has saturated;
\*   last, prev   the latest call of the hold and the one before it.
NoRun == [on |-> FALSE, aborted |-> FALSE, phase |-> "none"]
NewRun(c, wide) ==
    [on |-> TRUE, aborted |-> FALSE, phase |-> "free", pid |-> c,
     twin |-> wide, called |-> FALSE, saturated |-> TRUE, error |-> 0,
     clean |-> TRUE, last |-> NoRunCall, prev |-> NoRunCall]

\* The record of compute(error, error_dot, dt) on controller c.
RunCallOf(c, error, error_dot, dt) ==
    [made |-> TRUE, error_dot |-> error_dot, dt |-> dt,
     before |-> c.integral_state, raw |-> OutputUnsat(c, error, error_dot),
     ret |-> Output(c, error, error_dot)]

\* The sequence after one more compute(error, error_dot, dt).
RunAfterCompute(r, error, error_dot, dt) ==
    IF ComputeAborts(r.pid, error, error_dot)
    THEN [r EXCEPT !.aborted = TRUE]
    ELSE LET sat == r.saturated /\ Saturated(r.pid, error, error_dot)
         IN  [r EXCEPT
                !.pid = PIDCompute(r.pid, error, error_dot, dt),
                !.twin = IF sat THEN PIDCompute(r.twin, error, error_dot, dt)
                         ELSE NoPID,
                !.called = TRUE,
                !.saturated = sat,
                !.clean = IF r.phase = "hold"
                          THEN r.clean /\ ~Saturated(r.pid, error, error_dot)
                          ELSE TRUE,
                !.prev = IF r.phase = "hold" THEN r.last ELSE NoRunCall,
                !.last = IF r.phase = "hold"
                         THEN RunCallOf(r.pid, error, error_dot, dt)
                         ELSE NoRunCall]

\* ----------------------------------------------------------------- Simulator
\* constants.h.  dt is counted in units of 0.0001 s.
TANK_STATE_SIZE == 1
TANK_INPUT_SIZE == 2
MIN_DT == 10
MAX_DT == 100000
TicksPerSecond == MAX_DT \div MIN_DT

\* std::to_string of an int or a size_t: the decimal digits, "-" first.
Digit(d) ==
    CASE d = 0 -> "0" [] d = 1 -> "1" [] d = 2 -> "2" [] d = 3 -> "3"
      [] d = 4 -> "4" [] d = 5 -> "5" [] d = 6 -> "6" [] d = 7 -> "7"
      [] d = 8 -> "8" [] d = 9 -> "9"

RECURSIVE NatToString(_)
NatToString(n) == IF n < 10 THEN Digit(n) ELSE NatToString(n \div 10) \o Digit(n % 10)

IntToString(n) == IF n < 0 THEN "-" \o NatToString(-n) ELSE NatToString(n)

\* std::to_string of a double ("%f": six decimals), the double given in
\* units of 0.0001.
DoubleToString(t) ==
    LET a == Abs(t)
        frac == a % TicksPerSecond
    IN  (IF t < 0 THEN "-" ELSE "") \o NatToString(a \div TicksPerSecond) \o "."
        \o Digit(frac \div 1000) \o Digit((frac \div 100) % 10)
        \o Digit((frac \div 10) % 10) \o Digit(frac % 10) \o "00"

\* An exception: its type, the constructor that threw it, the validation
\* that failed (with the controller's position in the list) and the pieces
\* its message is concatenated from.
NoError == [kind |-> "none", by |-> "none", check |-> "none", index |-> 0,
            what |-> <<>>]
InvalidArgument(by, check, index, what) ==
    [kind |-> "std::invalid_argument", by |-> by, check |-> check,
     index |-> index, what |-> what]

NoConfig == [controllerConfig |-> <<>>, initialState |-> <<>>,
             initialInputs |-> <<>>, dt |-> 0]
NoSim == [time |-> 0, state |-> <<>>, inputs |-> <<>>, initialState |-> <<>>,
          initialInputs |-> <<>>, dt |-> 0, setpoints |-> <<>>,
          controllers |-> <<>>, controllerConfig |-> <<>>]
\* What the caller of the last Simulator operation saw: the operation, its
\* arguments (index, value, gains), the number (ret) or vector (retVec) it
\* returned, the exception it threw, the calls it made on the controllers
\* and the integrator (trace), the Simulator as it was when the call started
\* (before), whether the call before it was reset() (afterReset), and the
\* configuration the Simulator was constructed from (config).
NoSimCall == [op |-> "none", config |-> NoConfig, threw |-> NoError,
              index |-> 0, value |-> 0, gains |-> NoGains, ret |-> 0,
              retVec |-> <<>>, trace |-> <<>>, before |-> NoSim,
              afterReset |-> FALSE]

\* Stepper's constructor, as its declaration documents it: it rejects a zero
\* dimension.  (Its message is in the Stepper's implementation file.)
StepperValidate(state_dimension, input_dimension) ==
    IF state_dimension = 0 \/ input_dimension = 0
    THEN InvalidArgument("Stepper", "dimension", 0, <<"Stepper">>)
    ELSE NoError

\* The native integration handle (gsl_odeiv2_step) of the Simulator's Stepper
\* member: how often it was acquired and released, and whether it is held.
NoGsl == [acquired |-> 0, released |-> 0, held |-> FALSE]

\* Stepper's constructor allocates the handle, its destructor frees it.
StepperAcquire(g) == [g EXCEPT !.acquired = @ + 1, !.held = TRUE]
StepperRelease(g) == [g EXCEPT !.released = @ + 1, !.held = FALSE]

\* A Simulator constructor that lets the exception e of its body escape
\* without the Stepper member being destroyed.
CtorUnwindLeaks(g, e) == g

\* Simulator's constructor body ends with exception e (or NoError): when it
\* throws, the members already constructed, the Stepper among them, are
\* destroyed.
CtorUnwind(g, e) == IF e.kind # "none" THEN StepperRelease(g) ELSE g

\* The handle after Simulator's constructor, which ended with e: a Stepper
\* constructor that throws has acquired nothing.
GslAfterConstruct(config, e) ==
    IF StepperValidate(Len(config.initialState), Len(config.initialInputs)).kind # "none"
    THEN NoGsl
    ELSE CtorUnwind(StepperAcquire(NoGsl), e)

\* Validation 1: the dimensions the tank model expects.
SizeValidate(state, inputs) ==
    IF Len(state) # TANK_STATE_SIZE
    THEN InvalidArgument("Simulator", "state_size", 0,
             <<"Initial state size ", IntToString(Len(state)),
               " does not match TankModel expectation of ",
               IntToString(TANK_STATE_SIZE)>>)
    ELSE IF Len(inputs) # TANK_INPUT_SIZE
    THEN InvalidArgument("Simulator", "inputs_size", 0,
             <<"Initial inputs size ", IntToString(Len(inputs)),
               " does not match TankModel expectation of ",
               IntToString(TANK_INPUT_SIZE)>>)
    ELSE NoError

\* Validation 2: dt is positive and reasonable.
DtValidate(dt) ==
    IF dt <= 0 \/ dt < MIN_DT \/ dt > MAX_DT
    THEN InvalidArgument("Simulator", "dt", 0,
             <<"dt must be positive and between ", DoubleToString(MIN_DT),
               " and ", DoubleToString(MAX_DT), " seconds">>)
    ELSE NoError

\* Validation 3, for the controller at position i (counted from 1 here, from
\* 0 in the code and in its messages).
IndexValidateOne(ctrl, i, state, inputs) ==
    IF ctrl.measuredIndex < 0 \/ ctrl.measuredIndex >= Len(state)
    THEN InvalidArgument("Simulator", "measured_index", i,
             <<"Controller ", IntToString(i - 1), " measured_index ",
               IntToString(ctrl.measuredIndex), " is out of bounds for state ",
               "vector of size ", IntToString(Len(state))>>)
    ELSE IF ctrl.outputIndex < 0 \/ ctrl.outputIndex >= Len(inputs)
    THEN InvalidArgument("Simulator", "output_index", i,
             <<"Controller ", IntToString(i - 1), " output_index ",
               IntToString(ctrl.outputIndex), " is out of bounds for input ",
               "vector of size ", IntToString(Len(inputs))>>)
    ELSE NoError

\* The loop of validation 3: the first controller that fails it.
RECURSIVE IndexValidate(_, _, _, _)
IndexValidate(cfgs, i, state, inputs) ==
    IF i > Len(cfgs) THEN NoError
    ELSE LET e == IndexValidateOne(cfgs[i], i, state, inputs)
         IN  IF e.kind # "none" THEN e
             ELSE IndexValidate(cfgs, i + 1, state, inputs)

\* The constraint a PIDController constructor message belongs to.
PIDCheckOf(msg) ==
    CASE msg = "Integral time constant (tau_I) cannot be negative" -> "tau_I"
      [] msg = "Derivative time constant (tau_D) cannot be negative" -> "tau_D"
      [] msg = "min_output must be <= max_output" -> "output_limits"
      [] msg = "max_integral must be non-negative" -> "max_integral"

\* Validation 4: controllers.emplace_back, in list order; the first
\* PIDController constructor that throws ends the construction.
RECURSIVE CreateControllers(_, _)
CreateControllers(cfgs, i) ==
    IF i > Len(cfgs) THEN [threw |-> NoError, controllers |-> <<>>]
    ELSE LET c == cfgs[i]
             msg == PIDValidate(c.gains, c.minOutputLimit, c.maxOutputLimit,
                                c.maxIntegralAccumulation)
         IN  IF msg # "none"
             THEN [threw |-> InvalidArgument("PIDController", PIDCheckOf(msg), i, <<msg>>),
                   controllers |-> <<>>]
             ELSE LET rest == CreateControllers(cfgs, i + 1)
                  IN  [threw |-> rest.threw,
                       controllers |->
                           IF rest.threw.kind # "none" THEN <<>>
                           ELSE <<NewPID(c.gains, c.bias, c.minOutputLimit,
                                         c.maxOutputLimit,
                                         c.maxIntegralAccumulation)>>
                                \o rest.controllers]

\* The exception Simulator's constructor ends with, or NoError: the member
\* initialisers first (the Stepper), then the validations of the body.
SimValidate(config) ==
    LET e0 == StepperValidate(Len(config.initialState), Len(config.initialInputs))
        e1 == SizeValidate(config.initialState, config.initialInputs)
        e2 == DtValidate(config.dt)
        e3 == IndexValidate(config.controllerConfig, 1, config.initialState,
                            config.initialInputs)
    IN  IF e0.kind # "none" THEN e0
        ELSE IF e1.kind # "none" THEN e1
        ELSE IF e2.kind # "none" THEN e2
        ELSE IF e3.kind # "none" THEN e3
        ELSE CreateControllers(config.controllerConfig, 1).threw

\* The Simulator a successful construction leaves.
NewSim(config) ==
    [time |-> 0, state |-> config.initialState, inputs |-> config.initialInputs,
     initialState |-> config.initialState,
     initialInputs |-> config.initialInputs, dt |-> config.dt,
     setpoints |-> [i \in 1 .. Len(config.controllerConfig) |->
                       config.controllerConfig[i].initialSetpoint],
     controllers |-> CreateControllers(config.controllerConfig, 1).controllers,
     controllerConfig |-> config.controllerConfig]

\* The member functions of Simulator after the constructor, as functions of
\* the object s.  Every body is empty or returns a constant: step, reset and
\* the setters assign no member, the getters read none.
SimulatorStep(s) == s

SimulatorGetTime(s) == 0
SimulatorGetState(s) == <<>>
SimulatorGetInputs(s) == <<>>
SimulatorGetSetpoint(s, index) == 0
SimulatorGetControllerOutput(s, index) == 0
SimulatorGetError(s, index) == 0

SimulatorSetInput(s, index, value) == s

\* A setSetpoint that stores the value at a valid index.
SimulatorSetSetpointStoring(s, index, value) ==
    IF index \in 0 .. (Len(s.setpoints) - 1)
    THEN [s EXCEPT !.setpoints[index + 1] = value]
    ELSE s

SimulatorSetSetpoint(s, index, value) == s

SimulatorSetControllerGains(s, index, gains) == s

SimulatorReset(s) == s

\* The exception a getter or setter ends with when given index: none is
\* thrown, whatever the index.
SimulatorIndexThrows(s, index) == NoError

\* ------------------------------------------------------------------ Stepper
\* A Stepper object: the dimensions it was constructed with, and its native
\* handle.
NoStepper == [alive |-> FALSE, state_dimension |-> 0, input_dimension |-> 0,
              handle |-> NoGsl]

\* What the caller of the last Stepper operation saw: the operation, the
\* arguments of step, the vector returned (in units of 1/RK4Denominator), the
\* exception thrown, and the times (in units of 1/2) at which the derivative
\* function was invoked, in order.
NoStepArgs == [t |-> 0, dt |-> 0, state |-> <<>>, input |-> <<>>, deriv_func |-> "none"]
NoStepCall == [op |-> "none", args |-> NoStepArgs, ret |-> <<>>, threw |-> NoError,
               evals |-> <<>>]

RuntimeError(by, check, what) ==
    [kind |-> "std::runtime_error", by |-> by, check |-> check, index |-> 0,
     what |-> what]

\* The derivative functions handed to step: dy/dt = a*t + b*y + c*u[1], for
\* every component y of the state.
DerivFuncs == {"decay", "clock"}
DerivCoefficients(f) ==
    IF f = "decay" THEN [a |-> 0, b |-> -1, c |-> 1] ELSE [a |-> 1, b |-> 0, c |-> 0]

\* The classical fourth-order Runge-Kutta step for one component y.  K1..K4
\* are four times the slopes k1..k4, so that every division is exact; the
\* result is 24 times y + dt * (k1 + 2*k2 + 2*k3 + k4) / 6.
RK4Denominator == 24
RK4Component(f, t, dt, y, u) ==
    LET co == DerivCoefficients(f)
        F == 4 * (co.a * t + co.b * y + co.c * u)
        K1 == F
        K2 == F + 2 * co.a * dt + co.b * dt * (K1 \div 2)
        K3 == F + 2 * co.a * dt + co.b * dt * (K2 \div 2)
        K4 == F + 4 * co.a * dt + co.b * dt * K3
    IN  RK4Denominator * y + dt * (K1 + 2 * K2 + 2 * K3 + K4)

\* The times of the four evaluations, in units of 1/2: t, t + dt/2 twice,
\* t + dt.
RK4Evals(t, dt) == <<2 * t, 2 * t + dt, 2 * t + dt, 2 * t + 2 * dt>>

\* The exception Stepper::step ends with, as its declaration documents it:
\* std::runtime_error if the state or input dimensions do not match, and
\* std::runtime_error if the GSL integration fails.
StepperStepThrows(st, state, input, gslOk) ==
    IF Len(state) # st.state_dimension \/ Len(input) # st.input_dimension
    THEN RuntimeError("Stepper", "dimension", <<>>)
    ELSE IF ~gslOk THEN RuntimeError("Stepper", "gsl", <<>>)
    ELSE NoError

\* Arguments offered to the Stepper.
DimensionArgs == 0 .. 2
StepVectors == {<<>>, <<2>>, <<2, 1>>}
StepTimes == {0, 1}
StepSizes == {1, 2}

\* Stepper::Stepper(state_dimension, input_dimension).  allocOk: whether
\* GSL's allocation succeeds.
StepperConstruct(state_dimension, input_dimension, allocOk) ==
    /\ ~stepper.alive
    /\ stepCall.op = "none"
    /\ LET e == IF StepperValidate(state_dimension, input_dimension).kind # "none"
                THEN StepperValidate(state_dimension, input_dimension)
                ELSE IF ~allocOk THEN RuntimeError("Stepper", "allocation", <<>>)
                ELSE NoError
       IN  /\ stepCall' = [NoStepCall EXCEPT !.op = "construct", !.threw = e,
                               !.args.state = [i \in 1 .. state_dimension |-> 0],
                               !.args.input = [i \in 1 .. input_dimension |-> 0]]
           /\ stepper' = IF e.kind = "none"
                         THEN [alive |-> TRUE, state_dimension |-> state_dimension,
                               input_dimension |-> input_dimension,
                               handle |-> StepperAcquire(NoGsl)]
                         ELSE NoStepper
    /\ UNCHANGED <<build, pidVars, simVars, pairVars, tank, conv, runVars>>

\* Stepper::step(t, dt, state, input, deriv_func).  gslOk: whether GSL's
\* step reports success.  The Stepper keeps no state between calls.
StepperStep(t, dt, state, input, deriv_func, gslOk) ==
    /\ stepper.alive
    /\ LET e == StepperStepThrows(stepper, state, input, gslOk)
           args == [t |-> t, dt |-> dt, state |-> state, input |-> input,
                    deriv_func |-> deriv_func]
       IN  stepCall' =
               IF e.kind # "none"
               THEN [NoStepCall EXCEPT !.op = "step", !.args = args, !.threw = e]
               ELSE [NoStepCall EXCEPT
                        !.op = "step", !.args = args,
                        !.evals = RK4Evals(t, dt),
                        !.ret = [i \in 1 .. Len(state) |->
                                    RK4Component(deriv_func, t, dt, state[i], input[1])]]
    /\ UNCHANGED <<build, pidVars, simVars, pairVars, stepper, tank, conv, runVars>>

\* Stepper::~Stepper().
StepperDestroy ==
    /\ stepper.alive
    /\ stepper' = [stepper EXCEPT !.alive = FALSE, !.handle = StepperRelease(@)]
    /\ stepCall' = [NoStepCall EXCEPT !.op = "destroy"]
    /\ UNCHANGED <<build, pidVars, simVars, pairVars, tank, conv, runVars>>

\* ---------------------------------------------------------------- TankModel
\* What the caller of the last TankModel operation saw.  Levels are in whole
\* units, valve positions and flows in units of 1/2; derivatives returns
\* dh/dt as the fraction num / den.
NoTankParams == [area |-> 0, k_v |-> 0, max_height |-> 0]
NoTankCall == [op |-> "none", params |-> NoTankParams, state |-> <<>>,
               inputs |-> <<>>, ret |-> 0, den |-> 0]

\* The square root of a perfect square.
Sqrt(n) == CHOOSE r \in 0 .. n : r * r = n

\* q_out = k_v * x * sqrt(h), with no guard on the sign of the level: the
\* root of a negative level comes out negated.
OutletFlowUnclamped(params, state, inputs) ==
    params.k_v * inputs[2]
        * (IF state[1] < 0 THEN -Sqrt(-state[1]) ELSE Sqrt(state[1]))

\* q_out = k_v * x * sqrt(max(h, 0)).
OutletFlow(params, state, inputs) ==
    params.k_v * inputs[2] * Sqrt(IF state[1] > 0 THEN state[1] ELSE 0)

\* Arguments offered to the tank model: levels that are perfect squares or
\* negative (integrator overshoot), valve positions 0, 1/2 and 1.
TankParams == {[area |-> a, k_v |-> k, max_height |-> 9] : a \in {1, 2}, k \in {1, 2}}
LevelArgs == {-4, -1, 0, 1, 4, 9}
InletArgs == {0, 2, 4}
ValveArgs == {0, 1, 2}

\* TankModel::getOutletFlow(state, inputs).
TankGetOutletFlow(params, state, inputs) ==
    /\ tank' = [NoTankCall EXCEPT !.op = "getOutletFlow", !.params = params,
                    !.state = state, !.inputs = inputs,
                    !.ret = OutletFlow(params, state, inputs)]
    /\ UNCHANGED <<build, pidVars, simVars, pairVars, stepper, stepCall, conv, runVars>>

\* TankModel::derivatives(state, inputs): dh/dt = (q_in - q_out) / area.
TankDerivatives(params, state, inputs) ==
    /\ tank' = [NoTankCall EXCEPT !.op = "derivatives", !.params = params,
                    !.state = state, !.inputs = inputs,
                    !.ret = inputs[1] - OutletFlow(params, state, inputs),
                    !.den = 2 * params.area]
    /\ UNCHANGED <<build, pidVars, simVars, pairVars, stepper, stepCall, conv, runVars>>

\* ------------------------------------------- convergence of the integrator
\* Exact fractions: num / den with den > 0, in lowest terms.
Lcm(a, b) == (a \div Gcd(a, b)) * b
Q(num, den) ==
    LET g == Gcd(Abs(num), den)
    IN  [num |-> num \div g, den |-> den \div g]
QAdd(a, b) ==
    LET l == Lcm(a.den, b.den)
    IN  Q(a.num * (l \div a.den) + b.num * (l \div b.den), l)
QNeg(a) == [num |-> -a.num, den |-> a.den]
QSub(a, b) == QAdd(a, QNeg(b))
QMul(a, b) ==
    LET x == Q(a.num, b.den)
        y == Q(b.num, a.den)
    IN  [num |-> x.num * y.num, den |-> x.den * y.den]
QLeq(a, b) ==
    LET l == Lcm(a.den, b.den)
    IN  a.num * (l \div a.den) <= b.num * (l \div b.den)
QAbs(a) == [num |-> Abs(a.num), den |-> a.den]
QMax(a, b) == IF QLeq(a, b) THEN b ELSE a

\* The scalar test equations: dy/dt = t^3, dy/dt = t^4 and dy/dt = -y.
OdeFuncs == {"cubic", "quartic", "decay"}
OdeDeriv(ode, t, y) ==
    CASE ode = "cubic" -> QMul(t, QMul(t, t))
      [] ode = "quartic" -> QMul(QMul(t, t), QMul(t, t))
      [] ode = "decay" -> QNeg(y)

\* Their analytic solutions y = t^4/4, y = t^5/5 and y = exp(-t), as an
\* enclosure [lo, hi]; exp(-t) is enclosed at t = 0 and t = 2
\* (exp(-2) = 0.13533528...).
OdeSolutionKnown(ode, t) == ode # "decay" \/ t \in {Q(0, 1), Q(2, 1)}
OdeSolution(ode, t) ==
    CASE ode = "cubic" ->
             LET y == QMul(Q(1, 4), QMul(QMul(t, t), QMul(t, t)))
             IN  [lo |-> y, hi |-> y]
      [] ode = "quartic" ->
             LET y == QMul(Q(1, 5), QMul(t, QMul(QMul(t, t), QMul(t, t))))
             IN  [lo |-> y, hi |-> y]
      [] ode = "decay" ->
             IF t = Q(0, 1) THEN [lo |-> Q(1, 1), hi |-> Q(1, 1)]
             ELSE [lo |-> Q(1353, 10000), hi |-> Q(1354, 10000)]

\* A second-order step: the midpoint rule y + h * k2.
RK4Midpoint(ode, t, h, y) ==
    LET half == QMul(Q(1, 2), h)
        k1 == OdeDeriv(ode, t, y)
        k2 == OdeDeriv(ode, QAdd(t, half), QAdd(y, QMul(half, k1)))
    IN  QAdd(y, QMul(h, k2))

\* One classical fourth-order Runge-Kutta step of size h from (t, y):
\* y + h * (k1 + 2*k2 + 2*k3 + k4) / 6.
RK4Rational(ode, t, h, y) ==
    LET half == QMul(Q(1, 2), h)
        k1 == OdeDeriv(ode, t, y)
        k2 == OdeDeriv(ode, QAdd(t, half), QAdd(y, QMul(half, k1)))
        k3 == OdeDeriv(ode, QAdd(t, half), QAdd(y, QMul(half, k2)))
        k4 == OdeDeriv(ode, QAdd(t, h), QAdd(y, QMul(h, k3)))
        sum == QAdd(QAdd(k1, k4), QMul(Q(2, 1), QAdd(k2, k3)))
    IN  QAdd(y, QMul(QMul(Q(1, 6), h), sum))

\* An accuracy run: the equation, the start time t0, the coarse step h, the
\* number k of coarse steps made, and the value reached with steps of h
\* (coarse) and with twice as many steps of h/2 (fine).
NoConv == [ode |-> "none", k |-> 0]
ConvTime(c) == QAdd(c.t0, QMul(Q(c.k, 1), c.h))

\* Start times and coarse steps offered.
ConvStarts == {Q(0, 1), Q(1, 1), Q(2, 1)}
ConvSteps == {Q(1, 1), Q(2, 1)}
MaxCoarse == 2

\* The run starts on the analytic solution.
ConvStart(ode, t0, h) ==
    /\ conv.ode = "none"
    /\ OdeSolutionKnown(ode, t0)
    /\ conv' = [ode |-> ode, t0 |-> t0, h |-> h, k |-> 0,
                coarse |-> OdeSolution(ode, t0).lo, fine |-> OdeSolution(ode, t0).lo]
    /\ UNCHANGED <<build, pidVars, simVars, pairVars, stepper, stepCall, tank, runVars>>

\* Both integrations advance by h: one Stepper::step of h, two of h/2.
ConvAdvance ==
    /\ conv.ode # "none"
    /\ conv.k < MaxCoarse
    /\ OdeSolutionKnown(conv.ode, QAdd(ConvTime(conv), conv.h))
    /\ LET t == ConvTime(conv)
           half == QMul(Q(1, 2), conv.h)
           mid == RK4Rational(conv.ode, t, half, conv.fine)
       IN  conv' = [conv EXCEPT
                       !.k = @ + 1,
                       !.coarse = RK4Rational(conv.ode, t, conv.h, conv.coarse),
                       !.fine = RK4Rational(conv.ode, QAdd(t, half), half, mid)]
    /\ UNCHANGED <<build, pidVars, simVars, pairVars, stepper, stepCall, tank, runVars>>

\* ------------------------------------------------ two Simulator instances
\* Two Simulator objects, each called by its own thread.  A call reads and
\* writes the members of the object it is called on and nothing else (the
\* class has no static member and the sources no global), so the threads
\* interleave call by call.
Instances == {1, 2}

\* One instance: the object (sim), the configuration it was constructed
\* from, the steps completed since construction or the last reset(), and
\* what its caller has done to it so far (session):
\*   "fresh"    only steps, reads and reset() since construction;
\*   "touched"  a setInput or setSetpoint since construction or reset();
\*   "retuned"  a setControllerGains since construction;
\*   "reset"    reset() was called on a touched instance, and only steps,
\*              reads and reset() since.
NoInstance == [alive |-> FALSE, config |-> NoConfig, sim |-> NoSim, steps |-> 0,
               session |-> "none"]

\* The last call on either instance: the instance (who), the operation, its
\* arguments, what it returned, the object as it was when the call started,
\* and, for a step(), the setInput that was the call just before it on the
\* same instance (prior).
NoPrior == [made |-> FALSE, index |-> 0, value |-> 0]
NoPairCall == [who |-> 0, op |-> "none", index |-> 0, value |-> 0,
               gains |-> NoGains, ret |-> 0, retVec |-> <<>>, before |-> NoSim,
               prior |-> NoPrior]

\* Before either thread has constructed its Simulator: no object, no call.
Unborn == [alive |-> FALSE]
NoCallYet == [who |-> 0, op |-> "none"]

\* The members of instance k become s, if they were static: every instance's
\* do.
PairWithShared(p, k, s) == [j \in DOMAIN p |-> [p[j] EXCEPT !.sim = s]]

\* The members of instance k become s: the members are per object.
PairWith(p, k, s) == [p EXCEPT ![k].sim = s]

SessionAfterSet(session) == IF session = "retuned" THEN "retuned" ELSE "touched"
SessionAfterReset(session) == IF session = "touched" THEN "reset" ELSE session

\* Configurations and arguments offered to the two instances.
PairController ==
    [gains |-> [Kc |-> 1, tau_I |-> MaxTauI, tau_D |-> 0], bias |-> SCALE \div 2,
     minOutputLimit |-> 0, maxOutputLimit |-> SCALE,
     maxIntegralAccumulation |-> MaxIntegral, measuredIndex |-> 0,
     outputIndex |-> 1, initialSetpoint |-> 2]
PairConfigs ==
    {[controllerConfig |-> l, initialState |-> <<2>>, initialInputs |-> <<1, 1>>,
      dt |-> MIN_DT] : l \in {<<>>, <<PairController>>}}
PairIndexArgs == {-1, 0}
PairValueArgs == {3}
PairGainsArgs == {[Kc |-> 1, tau_I |-> -1, tau_D |-> 0]}

\* The call record of operation op on instance k.
PairCallOf(k, op) ==
    [NoPairCall EXCEPT !.who = k, !.op = op, !.before = pair[k].sim]

\* Configurations offered to the constructor.
StateVectors == {<<>>, <<2>>, <<2, 2>>}
InputVectors == {<<>>, <<1, 1>>, <<1, 1, 1>>}
DtConfigSet == {-MIN_DT, 0, MIN_DT \div 2, MIN_DT, MAX_DT, MAX_DT + 1}
IndexPairs == {<<0, 1>>, <<0, 0>>, <<-1, 1>>, <<1, 1>>, <<0, -1>>, <<0, 2>>}
ControllerSettings ==
    {[gains |-> [Kc |-> 1, tau_I |-> MaxTauI, tau_D |-> 0], lo |-> 0, hi |-> SCALE,
      mi |-> MaxIntegral],
     [gains |-> [Kc |-> 1, tau_I |-> -1, tau_D |-> 0], lo |-> 0, hi |-> SCALE,
      mi |-> MaxIntegral],
     [gains |-> [Kc |-> 1, tau_I |-> 0, tau_D |-> -1], lo |-> 0, hi |-> SCALE,
      mi |-> MaxIntegral],
     [gains |-> [Kc |-> -1, tau_I |-> 0, tau_D |-> 1], lo |-> SCALE, hi |-> 0,
      mi |-> 0],
     [gains |-> [Kc |-> 1, tau_I |-> 1, tau_D |-> 0], lo |-> 0, hi |-> 0,
      mi |-> -1]}
ControllerConfigs ==
    {[gains |-> s.gains, bias |-> SCALE \div 2, minOutputLimit |-> s.lo,
      maxOutputLimit |-> s.hi, maxIntegralAccumulation |-> s.mi,
      measuredIndex |-> ix[1], outputIndex |-> ix[2], initialSetpoint |-> 2] :
        s \in ControllerSettings, ix \in IndexPairs}
ControllerLists ==
    {<<>>} \cup {<<a>> : a \in ControllerConfigs}
           \cup {<<a, b>> : a \in ControllerConfigs, b \in ControllerConfigs}
Configs == [controllerConfig : ControllerLists, initialState : StateVectors,
            initialInputs : InputVectors, dt : DtConfigSet]

Init ==
    /\ build \in [pidSrc : PidSources, clampImpl : ClampImpls]
    /\ alive = FALSE
    /\ pid = NoPID
    /\ call = NoCall
    /\ given = NoGiven
    /\ fresh = NoFresh
    /\ crashed = FALSE
    /\ simAlive = FALSE
    /\ sim = NoSim
    /\ simCall = NoSimCall
    /\ simSteps = 0
    /\ gsl = NoGsl
    /\ stepper = NoStepper
    /\ stepCall = NoStepCall
    /\ tank = NoTankCall
    /\ conv = NoConv
    /\ pair = [k \in Instances |-> Unborn]
    /\ solo = [k \in Instances |-> Unborn]
    /\ pairCall = NoCallYet
    /\ run = NoRun

\* PIDController::PIDController(...).  (A caller whose construction failed
\* could try again; that reaches no state a first attempt does not reach.)
Construct(gains, bias, min_output, max_output, max_integral) ==
    /\ ~crashed
    /\ ~alive
    /\ call.op = "none"
    /\ LET msg == PIDValidate(gains, min_output, max_output, max_integral)
           cfg == [gains |-> gains, bias |-> bias, min_output |-> min_output,
                   max_output |-> max_output, max_integral |-> max_integral]
       IN  /\ call' = [NoCall EXCEPT !.op = "construct", !.cfg = cfg, !.threw = msg]
           /\ alive' = (msg = "none")
           /\ pid' = IF msg = "none"
                     THEN NewPID(gains, bias, min_output, max_output, max_integral)
                     ELSE NoPID
           /\ given' = IF msg = "none" THEN cfg ELSE NoGiven
    /\ fresh' = NoFresh
    /\ UNCHANGED <<build, crashed>>
    /\ UNCHANGED <<simVars, kernelVars, pairVars, runVars>>

Compute(error, error_dot, dt) ==
    /\ ~crashed
    /\ alive
    /\ LET args == [error |-> error, error_dot |-> error_dot, dt |-> dt]
       IN  IF ComputeAborts(pid, error, error_dot)
           THEN /\ crashed' = TRUE
                /\ call' = [NoCall EXCEPT !.op = "compute", !.args = args,
                                          !.threw = "abort",
                                          !.before = pid.integral_state]
                /\ UNCHANGED <<pid, fresh>>
           ELSE /\ call' = [NoCall EXCEPT !.op = "compute", !.args = args,
                                          !.ret = Output(pid, error, error_dot),
                                          !.before = pid.integral_state]
                /\ pid' = PIDCompute(pid, error, error_dot, dt)
                /\ fresh' = IF fresh.on
                            THEN [fresh EXCEPT
                                    !.pid = PIDCompute(fresh.pid, error, error_dot, dt),
                                    !.ret = Output(fresh.pid, error, error_dot)]
                            ELSE fresh
                /\ UNCHANGED crashed
    /\ UNCHANGED <<build, alive, given>>
    /\ UNCHANGED <<simVars, kernelVars, pairVars, runVars>>

SetGains(gains) ==
    /\ ~crashed
    /\ alive
    /\ pid' = PIDSetGains(pid, gains)
    /\ call' = [NoCall EXCEPT !.op = "setGains", !.cfg.gains = gains,
                              !.before = pid.integral_state]
    /\ given' = [given EXCEPT !.gains = gains]
    /\ fresh' = NoFresh
    /\ UNCHANGED <<build, alive, crashed>>
    /\ UNCHANGED <<simVars, kernelVars, pairVars, runVars>>

SetOutputLimits(min_val, max_val) ==
    /\ ~crashed
    /\ alive
    /\ pid' = PIDSetOutputLimits(pid, min_val, max_val)
    /\ call' = [NoCall EXCEPT !.op = "setOutputLimits", !.cfg.min_output = min_val,
                              !.cfg.max_output = max_val,
                              !.before = pid.integral_state]
    /\ given' = [given EXCEPT !.min_output = min_val, !.max_output = max_val]
    /\ fresh' = NoFresh
    /\ UNCHANGED <<build, alive, crashed>>
    /\ UNCHANGED <<simVars, kernelVars, pairVars, runVars>>

Reset ==
    /\ ~crashed
    /\ alive
    /\ pid' = PIDReset(pid)
    /\ call' = [NoCall EXCEPT !.op = "reset", !.before = pid.integral_state]
    /\ fresh' = IF PIDValidate(pid.gains, pid.min_output, pid.max_output,
                               pid.max_integral) = "none"
                THEN [on |-> TRUE,
                      pid |-> NewPID(pid.gains, pid.bias, pid.min_output,
                                     pid.max_output, pid.max_integral),
                      ret |-> 0, from |-> pid.integral_state]
                ELSE NoFresh
    /\ UNCHANGED <<build, alive, given, crashed>>
    /\ UNCHANGED <<simVars, kernelVars, pairVars, runVars>>

GetIntegralState ==
    /\ ~crashed
    /\ alive
    /\ call' = [NoCall EXCEPT !.op = "getIntegralState",
                              !.ret = PIDGetIntegralState(pid),
                              !.before = pid.integral_state]
    /\ UNCHANGED <<build, alive, pid, given, fresh, crashed>>
    /\ UNCHANGED <<simVars, kernelVars, pairVars, runVars>>

Next ==
    \/ \E g \in GainsSet, b \in BiasSet, lo \in LimitSet, hi \in LimitSet,
          mi \in MaxIntegralSet : Construct(g, b, lo, hi, mi)
    \/ \E e \in ErrSet, ed \in ErrDotSet, dt \in DtSet : Compute(e, ed, dt)
    \/ \E g \in GainsSet : SetGains(g)
    \/ \E lo \in LimitSet, hi \in LimitSet : SetOutputLimits(lo, hi)
    \/ Reset
    \/ GetIntegralState

Spec == Init /\ [][Next]_vars

\* Arguments offered to the Simulator's getters and setters.
IndexArgs == -1 .. 2
ValueArgs == {0, 3}
GainsArgs == {[Kc |-> -1, tau_I |-> 1, tau_D |-> 0], [Kc |-> 1, tau_I |-> -1, tau_D |-> 0]}

\* The record of a call of operation op on the live Simulator.
SimCallOf(op) ==
    [NoSimCall EXCEPT !.op = op, !.config = simCall.config, !.before = sim,
                      !.afterReset = (simCall.op = "reset")]

\* Simulator::Simulator(config).  A constructor that throws leaves no object.
\* (A caller whose construction failed could try again; that reaches no
\* state a first attempt does not reach, and is left out.)
SimConstruct ==
    /\ ~simAlive
    /\ simCall.op \in {"none", "destroy"}
    /\ \E config \in Configs :
           LET e == SimValidate(config)
           IN  /\ simCall' = [NoSimCall EXCEPT !.op = "construct", !.config = config,
                                             !.threw = e]
               /\ simAlive' = (e.kind = "none")
               /\ sim' = IF e.kind = "none" THEN NewSim(config) ELSE NoSim
               /\ gsl' = GslAfterConstruct(config, e)
    /\ simSteps' = 0
    /\ UNCHANGED <<build, pidVars, pairVars, kernelVars, runVars>>

\* The Simulator goes out of scope: its members are destroyed.
SimDestroy ==
    /\ simAlive
    /\ simAlive' = FALSE
    /\ sim' = NoSim
    /\ simCall' = [NoSimCall EXCEPT !.op = "destroy"]
    /\ simSteps' = 0
    /\ gsl' = StepperRelease(gsl)
    /\ UNCHANGED <<build, pidVars, pairVars, kernelVars, runVars>>

\* Simulator::step(): the body is empty.  It calls no controller and not the
\* integrator (trace stays empty) and assigns no member.  simSteps counts the
\* calls completed since construction or the last reset().
SimStep ==
    /\ simAlive
    /\ simSteps < MaxSteps
    /\ simCall' = [SimCallOf("step") EXCEPT !.trace = <<>>]
    /\ sim' = SimulatorStep(sim)
    /\ simSteps' = simSteps + 1
    /\ UNCHANGED <<build, pidVars, pairVars, kernelVars, simAlive, gsl, runVars>>

\* Simulator::getTime(): return 0.0.
SimGetTime ==
    /\ simAlive
    /\ simCall' = [SimCallOf("getTime") EXCEPT !.ret = SimulatorGetTime(sim)]
    /\ UNCHANGED <<build, pidVars, pairVars, kernelVars, simAlive, sim, simSteps, gsl, runVars>>

\* Simulator::getState(): return Eigen::VectorXd().
SimGetState ==
    /\ simAlive
    /\ simCall' = [SimCallOf("getState") EXCEPT !.retVec = SimulatorGetState(sim)]
    /\ UNCHANGED <<build, pidVars, pairVars, kernelVars, simAlive, sim, simSteps, gsl, runVars>>

\* Simulator::getInputs(): return Eigen::VectorXd().
SimGetInputs ==
    /\ simAlive
    /\ simCall' = [SimCallOf("getInputs") EXCEPT !.retVec = SimulatorGetInputs(sim)]
    /\ UNCHANGED <<build, pidVars, pairVars, kernelVars, simAlive, sim, simSteps, gsl, runVars>>

\* Simulator::getSetpoint(index): return 0.0.
SimGetSetpoint(index) ==
    /\ simAlive
    /\ simCall' = [SimCallOf("getSetpoint") EXCEPT
                       !.index = index, !.ret = SimulatorGetSetpoint(sim, index),
                       !.threw = SimulatorIndexThrows(sim, index)]
    /\ UNCHANGED <<build, pidVars, pairVars, kernelVars, simAlive, sim, simSteps, gsl, runVars>>

\* Simulator::getControllerOutput(index): return 0.0.
SimGetControllerOutput(index) ==
    /\ simAlive
    /\ simCall' = [SimCallOf("getControllerOutput") EXCEPT
                       !.index = index, !.ret = SimulatorGetControllerOutput(sim, index),
                       !.threw = SimulatorIndexThrows(sim, index)]
    /\ UNCHANGED <<build, pidVars, pairVars, kernelVars, simAlive, sim, simSteps, gsl, runVars>>

\* Simulator::getError(index): return 0.0.
SimGetError(index) ==
    /\ simAlive
    /\ simCall' = [SimCallOf("getError") EXCEPT
                       !.index = index, !.ret = SimulatorGetError(sim, index),
                       !.threw = SimulatorIndexThrows(sim, index)]
    /\ UNCHANGED <<build, pidVars, pairVars, kernelVars, simAlive, sim, simSteps, gsl, runVars>>

\* Simulator::setInput(index, value): the body is empty.
SimSetInput(index, value) ==
    /\ simAlive
    /\ simCall' = [SimCallOf("setInput") EXCEPT
                       !.index = index, !.value = value,
                       !.threw = SimulatorIndexThrows(sim, index)]
    /\ sim' = SimulatorSetInput(sim, index, value)
    /\ UNCHANGED <<build, pidVars, pairVars, kernelVars, simAlive, simSteps, gsl, runVars>>

\* Simulator::setSetpoint(index, value): the body is empty.
SimSetSetpoint(index, value) ==
    /\ simAlive
    /\ simCall' = [SimCallOf("setSetpoint") EXCEPT
                       !.index = index, !.value = value,
                       !.threw = SimulatorIndexThrows(sim, index)]
    /\ sim' = SimulatorSetSetpoint(sim, index, value)
    /\ UNCHANGED <<build, pidVars, pairVars, kernelVars, simAlive, simSteps, gsl, runVars>>

\* Simulator::setControllerGains(index, gains): the body is empty.
SimSetControllerGains(index, gains) ==
    /\ simAlive
    /\ simCall' = [SimCallOf("setControllerGains") EXCEPT
                       !.index = index, !.gains = gains,
                       !.threw = SimulatorIndexThrows(sim, index)]
    /\ sim' = SimulatorSetControllerGains(sim, index, gains)
    /\ UNCHANGED <<build, pidVars, pairVars, kernelVars, simAlive, simSteps, gsl, runVars>>

\* Simulator::reset(): the body is empty.
SimReset ==
    /\ simAlive
    /\ simCall' = SimCallOf("reset")
    /\ sim' = SimulatorReset(sim)
    /\ simSteps' = 0
    /\ UNCHANGED <<build, pidVars, pairVars, kernelVars, simAlive, gsl, runVars>>

SimNext ==
    \/ SimConstruct
    \/ SimDestroy
    \/ SimStep
    \/ SimGetTime
    \/ SimGetState
    \/ SimGetInputs
    \/ \E i \in IndexArgs : SimGetSetpoint(i)
    \/ \E i \in IndexArgs : SimGetControllerOutput(i)
    \/ \E i \in IndexArgs : SimGetError(i)
    \/ \E i \in IndexArgs, v \in ValueArgs : SimSetInput(i, v)
    \/ \E i \in IndexArgs, v \in ValueArgs : SimSetSetpoint(i, v)
    \/ \E i \in IndexArgs, g \in GainsArgs : SimSetControllerGains(i, g)
    \/ SimReset

SimSpec == Init /\ [][SimNext]_vars

StepperNext ==
    \/ \E sd \in DimensionArgs, id \in DimensionArgs, ok \in BOOLEAN :
           StepperConstruct(sd, id, ok)
    \/ \E t \in StepTimes, dt \in StepSizes, y \in StepVectors, u \in StepVectors,
          f \in DerivFuncs, ok \in BOOLEAN : StepperStep(t, dt, y, u, f, ok)
    \/ StepperDestroy

StepperSpec == Init /\ [][StepperNext]_vars

TankNext ==
    \/ \E p \in TankParams, h \in LevelArgs, q \in InletArgs, x \in ValveArgs :
           TankGetOutletFlow(p, <<h>>, <<q, x>>)
    \/ \E p \in TankParams, h \in LevelArgs, q \in InletArgs, x \in ValveArgs :
           TankDerivatives(p, <<h>>, <<q, x>>)

TankSpec == Init /\ [][TankNext]_vars

\* Thread k constructs its Simulator from a configuration that is accepted.
PairConstruct(k, config) ==
    /\ ~pair[k].alive
    /\ SimValidate(config).kind = "none"
    /\ pair' = PairWith([pair EXCEPT ![k] = [NoInstance EXCEPT
                                                !.alive = TRUE, !.config = config,
                                                !.session = "fresh"]],
                        k, NewSim(config))
    /\ solo' = [solo EXCEPT ![k] = NewSim(config)]
    /\ pairCall' = [NoPairCall EXCEPT !.who = k, !.op = "construct"]
    /\ UNCHANGED <<build, pidVars, simVars, kernelVars, runVars>>

\* Thread k calls step() on its Simulator.
PairStep(k) ==
    /\ pair[k].alive
    /\ pair[k].steps < MaxSteps
    /\ pair' = PairWith([pair EXCEPT ![k].steps = @ + 1], k, SimulatorStep(pair[k].sim))
    /\ solo' = [solo EXCEPT ![k] = SimulatorStep(solo[k])]
    /\ pairCall' = [PairCallOf(k, "step") EXCEPT
                       !.prior = IF pairCall.who = k /\ pairCall.op = "setInput"
                                 THEN [made |-> TRUE, index |-> pairCall.index,
                                       value |-> pairCall.value]
                                 ELSE NoPrior]
    /\ UNCHANGED <<build, pidVars, simVars, kernelVars, runVars>>

\* Thread k calls reset() on its Simulator.
PairReset(k) ==
    /\ pair[k].alive
    /\ pair' = PairWith([pair EXCEPT ![k].steps = 0,
                                     ![k].session = SessionAfterReset(@)],
                        k, SimulatorReset(pair[k].sim))
    /\ solo' = [solo EXCEPT ![k] = SimulatorReset(solo[k])]
    /\ pairCall' = PairCallOf(k, "reset")
    /\ UNCHANGED <<build, pidVars, simVars, kernelVars, runVars>>

\* Thread k calls a getter on its Simulator.
PairGetTime(k) ==
    /\ pair[k].alive
    /\ pairCall' = [PairCallOf(k, "getTime") EXCEPT !.ret = SimulatorGetTime(pair[k].sim)]
    /\ UNCHANGED <<build, pidVars, simVars, kernelVars, pair, solo, runVars>>

PairGetState(k) ==
    /\ pair[k].alive
    /\ pairCall' = [PairCallOf(k, "getState") EXCEPT
                       !.retVec = SimulatorGetState(pair[k].sim)]
    /\ UNCHANGED <<build, pidVars, simVars, kernelVars, pair, solo, runVars>>

PairGetInputs(k) ==
    /\ pair[k].alive
    /\ pairCall' = [PairCallOf(k, "getInputs") EXCEPT
                       !.retVec = SimulatorGetInputs(pair[k].sim)]
    /\ UNCHANGED <<build, pidVars, simVars, kernelVars, pair, solo, runVars>>

PairGetSetpoint(k, index) ==
    /\ pair[k].alive
    /\ pairCall' = [PairCallOf(k, "getSetpoint") EXCEPT
                       !.index = index,
                       !.ret = SimulatorGetSetpoint(pair[k].sim, index)]
    /\ UNCHANGED <<build, pidVars, simVars, kernelVars, pair, solo, runVars>>

PairGetControllerOutput(k, index) ==
    /\ pair[k].alive
    /\ pairCall' = [PairCallOf(k, "getControllerOutput") EXCEPT
                       !.index = index,
                       !.ret = SimulatorGetControllerOutput(pair[k].sim, index)]
    /\ UNCHANGED <<build, pidVars, simVars, kernelVars, pair, solo, runVars>>

PairGetError(k, index) ==
    /\ pair[k].alive
    /\ pairCall' = [PairCallOf(k, "getError") EXCEPT
                       !.index = index,
                       !.ret = SimulatorGetError(pair[k].sim, index)]
    /\ UNCHANGED <<build, pidVars, simVars, kernelVars, pair, solo, runVars>>

\* Thread k calls a setter on its Simulator.
PairSetInput(k, index, value) ==
    /\ pair[k].alive
    /\ pair' = PairWith([pair EXCEPT ![k].session = SessionAfterSet(@)],
                        k, SimulatorSetInput(pair[k].sim, index, value))
    /\ solo' = [solo EXCEPT ![k] = SimulatorSetInput(solo[k], index, value)]
    /\ pairCall' = [PairCallOf(k, "setInput") EXCEPT !.index = index, !.value = value]
    /\ UNCHANGED <<build, pidVars, simVars, kernelVars, runVars>>

PairSetSetpoint(k, index, value) ==
    /\ pair[k].alive
    /\ pair' = PairWith([pair EXCEPT ![k].session = SessionAfterSet(@)],
                        k, SimulatorSetSetpoint(pair[k].sim, index, value))
    /\ solo' = [solo EXCEPT ![k] = SimulatorSetSetpoint(solo[k], index, value)]
    /\ pairCall' = [PairCallOf(k, "setSetpoint") EXCEPT !.index = index, !.value = value]
    /\ UNCHANGED <<build, pidVars, simVars, kernelVars, runVars>>

PairSetControllerGains(k, index, gains) ==
    /\ pair[k].alive
    /\ pair' = PairWith([pair EXCEPT ![k].session = "retuned"],
                        k, SimulatorSetControllerGains(pair[k].sim, index, gains))
    /\ solo' = [solo EXCEPT ![k] = SimulatorSetControllerGains(solo[k], index, gains)]
    /\ pairCall' = [PairCallOf(k, "setControllerGains") EXCEPT
                       !.index = index, !.gains = gains]
    /\ UNCHANGED <<build, pidVars, simVars, kernelVars, runVars>>

PairNext ==
    \E k \in Instances :
        \/ \E config \in PairConfigs : PairConstruct(k, config)
        \/ PairStep(k)
        \/ PairReset(k)
        \/ PairGetTime(k)
        \/ PairGetState(k)
        \/ PairGetInputs(k)
        \/ \E i \in PairIndexArgs : PairGetSetpoint(k, i)
        \/ \E i \in PairIndexArgs : PairGetControllerOutput(k, i)
        \/ \E i \in PairIndexArgs : PairGetError(k, i)
        \/ \E i \in PairIndexArgs, v \in PairValueArgs : PairSetInput(k, i, v)
        \/ \E i \in PairIndexArgs, v \in PairValueArgs : PairSetSetpoint(k, i, v)
        \/ \E i \in PairIndexArgs, g \in PairGainsArgs : PairSetControllerGains(k, i, g)

PairSpec == Init /\ [][PairNext]_vars

ConvNext ==
    \/ \E ode \in OdeFuncs, t0 \in ConvStarts, h \in ConvSteps : ConvStart(ode, t0, h)
    \/ ConvAdvance

ConvSpec == Init /\ [][ConvNext]_vars

\* ------------------------------------------------- sequences of compute calls
\* PIDController pid(gains, bias, min, max, max_integral), and the second
\* controller of the anti-windup test beside it.
RunStart(gains, bias, limits, max_integral) ==
    /\ run.phase = "none"
    /\ run' = IF PIDValidate(gains, limits[1], limits[2], max_integral) # "none"
              THEN [NoRun EXCEPT !.phase = "rejected"]
              ELSE NewRun(NewPID(gains, bias, limits[1], limits[2], max_integral),
                          NewPID(gains, bias, -WideLimit, WideLimit, max_integral))
    /\ UNCHANGED <<build, pidVars, simVars, kernelVars, pairVars>>

\* pid.compute(error, error_dot, dt), any arguments.
RunCompute(error, error_dot, dt) ==
    /\ run.on /\ ~run.aborted
    /\ run.phase = "free"
    /\ run' = RunAfterCompute(run, error, error_dot, dt)
    /\ UNCHANGED <<build, pidVars, simVars, kernelVars, pairVars>>

\* From here on the caller passes the same error to every compute.
RunHold(error) ==
    /\ run.on /\ ~run.aborted
    /\ run.phase = "free"
    /\ run' = [run EXCEPT !.phase = "hold", !.error = error]
    /\ UNCHANGED <<build, pidVars, simVars, kernelVars, pairVars>>

\* pid.compute(error, error_dot, dt) with the error held.
RunHoldCompute(error_dot, dt) ==
    /\ run.on /\ ~run.aborted
    /\ run.phase = "hold"
    /\ run' = RunAfterCompute(run, run.error, error_dot, dt)
    /\ UNCHANGED <<build, pidVars, simVars, kernelVars, pairVars>>

RunNext ==
    \/ \E g \in RunGainsSet, b \in BiasSet, l \in RunLimits, mi \in MaxIntegralSet :
          RunStart(g, b, l, mi)
    \/ \E e \in ErrSet, ed \in RunErrDotSet, dt \in DtSet : RunCompute(e, ed, dt)
    \/ \E e \in ErrSet : RunHold(e)
    \/ \E ed \in ErrDotSet, dt \in DtSet : RunHoldCompute(ed, dt)

RunSpec == Init /\ [][RunNext]_vars

\* The caller's loop goes on: a compute with the held error is always made
\* again.
RunFairSpec == RunSpec /\ WF_vars(\E ed \in ErrDotSet, dt \in DtSet : RunHoldCompute(ed, dt))

\* ================================================================== claims
\* The controller as it was when the last call started.
Before == [pid EXCEPT !.integral_state = call.before]

Computed == call.op = "compute" /\ call.threw = "none"

\* out is v clamped to [lo, hi].
IsClamped(out, v, lo, hi) ==
    /\ (lo <= v /\ v <= hi) => out = v
    /\ v < lo => out = lo
    /\ v > hi => out = hi

\* The raw value bias + Kc * (p + i + d) of the last call, in units of 1/SCALE.
RawValue ==
    LET I == IF pid.gains.tau_I # 0
             THEN ScaledInverse(pid.gains.tau_I) * call.before
             ELSE 0
    IN  pid.bias + pid.gains.Kc * (SCALE * call.args.error + I
                                   + SCALE * pid.gains.tau_D * call.args.error_dot)

\* C1: every compute call whose raw value lies within [minOutput, maxOutput]
\* leaves the accumulator at clamp(old + error * dt, -maxIntegral,
\* +maxIntegral), and every other compute call leaves it unchanged.
C1_ConditionalAccumulation ==
    Computed =>
        IF pid.min_output <= RawValue /\ RawValue <= pid.max_output
        THEN IsClamped(pid.integral_state,
                       call.before + call.args.error * call.args.dt,
                       -pid.max_integral, pid.max_integral)
        ELSE pid.integral_state = call.before

\* C2: whatever calls were made on a constructed controller,
\* |integralAccumulator| <= maxIntegral.
C2_IntegralBounded == alive => Abs(pid.integral_state) <= pid.max_integral

\* C3: every value compute returns lies in [minOutput, maxOutput], and is
\* maxOutput when the raw value exceeds maxOutput, minOutput when the raw
\* value is below minOutput.
C3_OutputWithinLimits ==
    Computed =>
        /\ pid.min_output <= call.ret /\ call.ret <= pid.max_output
        /\ RawValue > pid.max_output => call.ret = pid.max_output
        /\ RawValue < pid.min_output => call.ret = pid.min_output

\* C4: compute returns clamp(bias + Kc * (error + I + tau_D * errorDerivative),
\* minOutput, maxOutput), I being accumulator/tau_I, or 0 when tau_I = 0.
C4_ControlLaw ==
    Computed => IsClamped(call.ret, RawValue, pid.min_output, pid.max_output)

\* The constructor arguments the controller's contract excludes.
InvalidConfig(cfg) ==
    \/ cfg.gains.tau_I < 0
    \/ cfg.gains.tau_D < 0
    \/ cfg.min_output > cfg.max_output
    \/ cfg.max_integral < 0

\* C5: the constructor fails exactly when tau_I < 0, tau_D < 0,
\* minOutput > maxOutput or maxIntegral < 0, and otherwise yields a
\* controller whose accumulator is 0.
C5_ConstructorRejects ==
    call.op = "construct" =>
        /\ (call.threw # "none") <=> InvalidConfig(call.cfg)
        /\ (call.threw # "none") => ~alive
        /\ (call.threw = "none") => alive /\ pid.integral_state = 0

\* C6: setGains given a negative tau_I or tau_D signals a failure and the
\* controller keeps the gains it had.
C6_SetGainsRejectsNegative ==
    (call.op = "setGains" /\ (call.cfg.gains.tau_I < 0 \/ call.cfg.gains.tau_D < 0))
        => call.threw # "none" /\ pid.gains # call.cfg.gains

\* C7: setGains and setOutputLimits leave the integral accumulator as it was
\* and change nothing but the gains, respectively the limits, and the next
\* compute works with the gains and limits last given.
C7_ReconfigurationKeepsIntegral ==
    alive =>
        /\ call.op \in {"setGains", "setOutputLimits"}
               => pid.integral_state = call.before
        /\ pid = [gains |-> given.gains, bias |-> given.bias,
                  min_output |-> given.min_output, max_output |-> given.max_output,
                  max_integral |-> given.max_integral,
                  integral_state |-> pid.integral_state]
        /\ Computed =>
               call.ret = Output([Before EXCEPT !.gains = given.gains,
                                                !.min_output = given.min_output,
                                                !.max_output = given.max_output],
                                 call.args.error, call.args.error_dot)

C7_Witness ==
    /\ alive
    /\ call.op \in {"setGains", "setOutputLimits"}
    /\ call.before # 0
    /\ pid.integral_state = call.before

\* C8: reset() leaves the accumulator at 0, and from then on the controller
\* and a controller constructed afresh with the same gains, bias and limits
\* return the same outputs and hold the same accumulator under the same
\* compute calls.
C8_ResetIsFresh ==
    /\ call.op = "reset" => pid.integral_state = 0
    /\ fresh.on =>
           /\ fresh.pid = pid
           /\ Computed => fresh.ret = call.ret

C8_Witness ==
    /\ fresh.on
    /\ fresh.from # 0
    /\ Computed
    /\ pid.integral_state # 0

\* The values of a sequence.
Range(q) == {q[i] : i \in 1 .. Len(q)}

\* A double of the controller's output side (units of 1/SCALE), and a whole
\* double, in the units DoubleToString takes.
OutputTicks(v) == (v * TicksPerSecond) \div SCALE
WholeTicks(v) == v * TicksPerSecond

\* The controller settings, and the configurations, the contract admits.
ControllerAcceptable(c) ==
    /\ c.gains.tau_I >= 0
    /\ c.gains.tau_D >= 0
    /\ c.minOutputLimit <= c.maxOutputLimit
    /\ c.maxIntegralAccumulation >= 0

ConfigAcceptable(config) ==
    /\ Len(config.initialState) = TANK_STATE_SIZE
    /\ Len(config.initialInputs) = TANK_INPUT_SIZE
    /\ 0 < config.dt /\ MIN_DT <= config.dt /\ config.dt <= MAX_DT
    /\ \A i \in 1 .. Len(config.controllerConfig) :
           LET c == config.controllerConfig[i]
           IN  /\ 0 <= c.measuredIndex /\ c.measuredIndex < Len(config.initialState)
               /\ 0 <= c.outputIndex /\ c.outputIndex < Len(config.initialInputs)
               /\ ControllerAcceptable(c)

\* C9: Simulator construction succeeds exactly when the state length is 1,
\* the input length is 2, 0 < dt and MIN_DT <= dt <= MAX_DT, every
\* controller's measuredIndex and outputIndex are in range and every
\* controller's gains and limits are ones the controller accepts; otherwise
\* it raises a configuration error and no Simulator exists; on success
\* nothing of the configuration is clamped or ignored.
C9_ConstructionValidates ==
    simCall.op = "construct" =>
        LET config == simCall.config
        IN  /\ simAlive <=> ConfigAcceptable(config)
            /\ ~simAlive => simCall.threw.kind = "std::invalid_argument" /\ sim = NoSim
            /\ simAlive =>
                   /\ simCall.threw = NoError
                   /\ sim.dt = config.dt
                   /\ sim.state = config.initialState
                   /\ sim.inputs = config.initialInputs
                   /\ Len(sim.controllers) = Len(config.controllerConfig)
                   /\ \A i \in 1 .. Len(sim.controllers) :
                          LET c == config.controllerConfig[i]
                          IN  /\ sim.controllers[i] =
                                     NewPID(c.gains, c.bias, c.minOutputLimit,
                                            c.maxOutputLimit, c.maxIntegralAccumulation)
                              /\ sim.setpoints[i] = c.initialSetpoint

\* The renderings of the value that failed the check an error names.
OffendingValues(config, e) ==
    LET c == config.controllerConfig[e.index]
    IN  CASE e.check = "state_size" -> {IntToString(Len(config.initialState))}
          [] e.check = "inputs_size" -> {IntToString(Len(config.initialInputs))}
          [] e.check = "dt" -> {DoubleToString(config.dt)}
          [] e.check = "measured_index" -> {IntToString(c.measuredIndex)}
          [] e.check = "output_index" -> {IntToString(c.outputIndex)}
          [] e.check = "tau_I" -> {DoubleToString(WholeTicks(c.gains.tau_I))}
          [] e.check = "tau_D" -> {DoubleToString(WholeTicks(c.gains.tau_D))}
          [] e.check = "output_limits" ->
                 {DoubleToString(OutputTicks(c.minOutputLimit)),
                  DoubleToString(OutputTicks(c.maxOutputLimit))}
          [] e.check = "max_integral" ->
                 {DoubleToString(WholeTicks(c.maxIntegralAccumulation))}

\* C10: every configuration error raised by the Simulator's or the
\* controller's constructor carries, in its message, the value that failed
\* the constraint.
C10_ErrorsCarryValue ==
    (simCall.op = "construct" /\ simCall.threw.by \in {"Simulator", "PIDController"})
        => /\ simCall.threw.what # <<>>
           /\ OffendingValues(simCall.config, simCall.threw)
                  \cap Range(simCall.threw.what) # {}

\* ------------------------------------------------- claims on the Simulator
\* The controller configuration bound to controller i of the last call.
BindingOf(i) == simCall.config.controllerConfig[i]

\* The events of kind k in the trace of the last call.
EventsOf(k) == {j \in 1 .. Len(simCall.trace) : simCall.trace[j].kind = k}

\* C11: simulated time starts at 0 and every completed step() advances it by
\* the configured dt: the time, and what getTime() returns, is the number of
\* steps completed since construction or the last reset times dt, and dt
\* stays the dt of the configuration.
C11_TimeAdvances ==
    simAlive =>
        /\ sim.dt = simCall.config.dt
        /\ sim.time = simSteps * sim.dt
        /\ simCall.op = "getTime" => simCall.ret = simSteps * sim.dt

\* C12: during step() every controller i is given error = setpoint_i -
\* state[measuredIndex_i], taken on the state before integration, and when
\* step() returns the input at outputIndex_i holds that controller's output
\* (for the last controller bound to that index).
C12_ControllersFed ==
    simCall.op = "step" =>
        \A i \in 1 .. Len(simCall.before.controllers) :
            \E j \in EventsOf("compute") :
                /\ simCall.trace[j].controller = i
                /\ simCall.trace[j].error =
                       simCall.before.setpoints[i]
                       - simCall.before.state[BindingOf(i).measuredIndex + 1]
                /\ (\A l \in (i + 1) .. Len(simCall.before.controllers) :
                        BindingOf(l).outputIndex # BindingOf(i).outputIndex)
                   => sim.inputs[BindingOf(i).outputIndex + 1] = simCall.trace[j].ret

\* C13: within one step() the controllers are evaluated in list order, all of
\* them before the one call of the integrator, and the integrator sees, and
\* the input vector keeps, the value the later of two controllers bound to
\* the same input wrote.
C13_ControllersInOrder ==
    simCall.op = "step" =>
        LET n == Len(simCall.before.controllers)
        IN  /\ Len(simCall.trace) = n + 1
            /\ \A i \in 1 .. n : /\ simCall.trace[i].kind = "compute"
                                 /\ simCall.trace[i].controller = i
            /\ simCall.trace[n + 1].kind = "integrate"
            /\ simCall.trace[n + 1].input = sim.inputs
            /\ \A i \in 1 .. n :
                   (\A l \in (i + 1) .. n :
                        BindingOf(l).outputIndex # BindingOf(i).outputIndex)
                   => sim.inputs[BindingOf(i).outputIndex + 1] = simCall.trace[i].ret

\* C14: setInput, setSetpoint and setControllerGains change the addressed
\* input entry, setpoint or gains at the call, and nothing else.
C14_SettersChangeOnlyTheirTarget ==
    /\ (simCall.op = "setInput" /\ simCall.index \in 0 .. (Len(simCall.before.inputs) - 1))
           => sim = [simCall.before EXCEPT !.inputs[simCall.index + 1] = simCall.value]
    /\ (simCall.op = "setSetpoint"
            /\ simCall.index \in 0 .. (Len(simCall.before.setpoints) - 1))
           => sim = [simCall.before EXCEPT !.setpoints[simCall.index + 1] = simCall.value]
    /\ (simCall.op = "setControllerGains"
            /\ simCall.index \in 0 .. (Len(simCall.before.controllers) - 1)
            /\ simCall.gains.tau_I >= 0 /\ simCall.gains.tau_D >= 0)
           => sim = [simCall.before EXCEPT
                        !.controllers[simCall.index + 1].gains = simCall.gains]

\* C15: after reset() the time is 0, state and inputs are the initial ones of
\* the configuration (for the object and for the caller who reads them next),
\* every integral accumulator is 0, and gains, limits and bindings are what
\* they were just before the reset.
C15_ResetRestores ==
    /\ simCall.op = "reset" =>
           /\ sim.time = 0
           /\ sim.state = simCall.config.initialState
           /\ sim.inputs = simCall.config.initialInputs
           /\ sim.controllerConfig = simCall.before.controllerConfig
           /\ Len(sim.controllers) = Len(simCall.before.controllers)
           /\ \A i \in 1 .. Len(sim.controllers) :
                  sim.controllers[i] =
                      [simCall.before.controllers[i] EXCEPT !.integral_state = 0]
    /\ simCall.afterReset =>
           /\ simCall.op = "getTime" => simCall.ret = 0
           /\ simCall.op = "getState" => simCall.retVec = simCall.config.initialState
           /\ simCall.op = "getInputs" => simCall.retVec = simCall.config.initialInputs

\* C16: the getters change nothing, and return what the most recently
\* completed step left: the time, the state, the inputs, the setpoint.
C16_GettersArePureReads ==
    simCall.op \in {"getTime", "getState", "getInputs", "getSetpoint",
                    "getControllerOutput", "getError"} =>
        /\ sim = simCall.before
        /\ simCall.op = "getTime" => simCall.ret = simSteps * sim.dt
        /\ simCall.op = "getState" => simCall.retVec = sim.state
        /\ simCall.op = "getInputs" => simCall.retVec = sim.inputs
        /\ (simCall.op = "getSetpoint" /\ simCall.index \in 0 .. (Len(sim.setpoints) - 1))
               => simCall.ret = sim.setpoints[simCall.index + 1]

\* The last Stepper::step was given a state or an input of the wrong length.
DimensionMismatch ==
    /\ stepCall.op = "step"
    /\ \/ Len(stepCall.args.state) # stepper.state_dimension
       \/ Len(stepCall.args.input) # stepper.input_dimension

\* The error this Stepper raises when GSL fails on well-dimensioned vectors.
GslFailure ==
    StepperStepThrows(stepper, [i \in 1 .. stepper.state_dimension |-> 0],
                      [i \in 1 .. stepper.input_dimension |-> 0], FALSE)

\* C17: a Stepper::step whose state or input has the wrong length raises an
\* error of another kind than the one raised for a GSL integration failure,
\* and leaves the Stepper alive, holding its handle, for later calls.
C17_MismatchIsACallerError ==
    DimensionMismatch =>
        /\ stepCall.threw.kind # "none"
        /\ stepCall.threw.kind # GslFailure.kind
        /\ stepper.alive
        /\ stepper.handle.held

\* C18: a Simulator::step calls the integrator exactly once, and that call
\* evaluates the derivative four times, at t, t + dt/2, t + dt/2 and t + dt,
\* on the state and input vectors it was given, which it leaves as they were.
C18_OneIntegrationFourEvaluations ==
    simCall.op = "step" =>
        /\ Cardinality(EventsOf("integrate")) = 1
        /\ \A j \in EventsOf("integrate") :
               /\ simCall.trace[j].evals
                      = RK4Evals(simCall.before.time, simCall.before.dt)
               /\ simCall.trace[j].state = simCall.before.state
               /\ simCall.trace[j].stateAfter = simCall.trace[j].state
               /\ simCall.trace[j].inputAfter = simCall.trace[j].input

C25_SnapshotIsConsistent ==
    simAlive =>
        \A i \in 1 .. Len(sim.controllers) :
            LET level == SimulatorGetState(sim)
                at == BindingOf(i).measuredIndex + 1
            IN  /\ at \in DOMAIN level
                /\ SimulatorGetError(sim, i - 1)
                       = SimulatorGetSetpoint(sim, i - 1) - level[at]

\* The last call was a getter or setter given an index that addresses no
\* controller (no input entry, for setInput).
IndexOutOfRange ==
    \/ /\ simCall.op \in {"getSetpoint", "getControllerOutput", "getError",
                          "setSetpoint", "setControllerGains"}
       /\ simCall.index \notin 0 .. (Len(simCall.before.controllers) - 1)
    \/ /\ simCall.op = "setInput"
       /\ simCall.index \notin 0 .. (Len(simCall.before.inputs) - 1)

\* C26: a getter or setter given an index out of range signals an error and
\* leaves time, state, inputs, setpoints and controllers as they were.
C26_BadIndexIsRejected ==
    IndexOutOfRange =>
        /\ simCall.threw.kind # "none"
        /\ sim = simCall.before

\* ------------------------------------------- claims on Simulator instances
\* The Simulator a fresh construction from config followed by n step()
\* calls leaves.
RECURSIVE FreshAfter(_, _)
FreshAfter(config, n) ==
    IF n = 0 THEN NewSim(config) ELSE SimulatorStep(FreshAfter(config, n - 1))

\* The input indices some controller of instance k writes.
OutputIndices(k) ==
    {pair[k].config.controllerConfig[i].outputIndex :
        i \in 1 .. Len(pair[k].config.controllerConfig)}

C28_StepWritesOnlyControllerOutputs ==
    pairCall.op = "step" =>
        LET k == pairCall.who
            after == pair[k].sim.inputs
            before == pairCall.before.inputs
        IN  /\ Len(after) = Len(before)
            /\ \A j \in 1 .. Len(before) :
                   (j - 1) \notin OutputIndices(k) => after[j] = before[j]
            /\ (/\ pairCall.prior.made
                /\ pairCall.prior.index \in 0 .. (Len(before) - 1)
                /\ pairCall.prior.index \notin OutputIndices(k))
                   => after[pairCall.prior.index + 1] = pairCall.prior.value
            /\ OutputIndices(k) = {} => after = before

C27_LimitsStayOrdered ==
    alive => pid.min_output <= pid.max_output

\* ------------------------------------------- claims on the integrator's accuracy
\* The total error |y - solution| of a value y, as an enclosure.
ErrorOf(y, sol) ==
    IF QLeq(sol.hi, y) THEN [lo |-> QSub(y, sol.hi), hi |-> QSub(y, sol.lo)]
    ELSE IF QLeq(y, sol.lo) THEN [lo |-> QSub(sol.lo, y), hi |-> QSub(sol.hi, y)]
    ELSE [lo |-> Q(0, 1), hi |-> QMax(QSub(y, sol.lo), QSub(sol.hi, y))]
CoarseError == ErrorOf(conv.coarse, OdeSolution(conv.ode, ConvTime(conv)))
FineError == ErrorOf(conv.fine, OdeSolution(conv.ode, ConvTime(conv)))

\* The ratio of the coarse to the fine error lies in [12, 20], whatever the
\* solution's value within its enclosure.
RatioWithin ==
    /\ QLeq(QMul(Q(12, 1), FineError.hi), CoarseError.lo)
    /\ QLeq(CoarseError.hi, QMul(Q(20, 1), FineError.lo))

\* The ratio lies outside [12, 20], whatever the solution's value within
\* its enclosure.
RatioOutside ==
    \/ ~QLeq(CoarseError.lo, QMul(Q(20, 1), FineError.hi))
    \/ ~QLeq(QMul(Q(12, 1), FineError.lo), CoarseError.hi)

HeldPositive ==
    /\ run.phase = "hold" /\ run.error > 0 /\ run.clean
    /\ run.prev.made /\ run.last.made

\* C21, as stated: for repeated compute calls with the same positive error and
\* positive dt in which no call saturates, the raw (unsaturated) output of each
\* call is strictly greater than that of the call before it.
C21_RawOutputIncreases == HeldPositive => run.last.raw > run.prev.raw

\* C21, amended: for repeated compute calls with the same positive error, the
\* same error derivative and positive dt in which no call saturates, on a
\* controller with Kc > 0 and tau_I > 0, the raw output of a call is strictly
\* greater than that of the call before it whenever that call's
\* accumulator + error * dt lay within [-maxIntegral, +maxIntegral].
C21_RawOutputIncreasesWithIntegralAction ==
    ( /\ HeldPositive
      /\ run.pid.gains.Kc > 0 /\ run.pid.gains.tau_I > 0
      /\ run.last.error_dot = run.prev.error_dot
      /\ Abs(run.prev.before + run.error * run.prev.dt) <= run.pid.max_integral )
    => run.last.raw > run.prev.raw

C21_Witness ==
    /\ HeldPositive
    /\ run.pid.gains.Kc > 0 /\ run.pid.gains.tau_I > 0
    /\ run.last.error_dot = run.prev.error_dot
    /\ Abs(run.prev.before + run.error * run.prev.dt) <= run.pid.max_integral
    /\ run.pid.max_output = SCALE
    /\ run.last.raw > run.prev.raw

\* Every call made on the controller since its construction has saturated.
KeptSaturated == run.on /\ run.called /\ run.saturated

\* C22, as stated: over a sequence of compute calls that keeps a controller
\* saturated on every call, the growth of its accumulator is strictly less
\* than the growth of the accumulator of an otherwise identical controller
\* whose output limits never bind, fed the same calls.
C22_SaturatedGrowthStrictlyLess ==
    KeptSaturated => run.pid.integral_state < run.twin.integral_state

\* C22, amended: over a sequence of compute calls that keeps a controller
\* saturated on every call its accumulator does not change at all, while the
\* limits of the otherwise identical controller never bind; so its growth is
\* never greater in magnitude than the other controller's, and strictly less
\* in magnitude exactly when the other controller's accumulator has moved
\* (which a zero error, or maxIntegral = 0, prevents).
C22_SaturatedGrowthIsZero ==
    KeptSaturated =>
        /\ run.pid.integral_state = 0
        /\ \A e \in ErrSet, ed \in RunErrDotSet : ~Saturated(run.twin, e, ed)
        /\ Abs(run.pid.integral_state) <= Abs(run.twin.integral_state)
        /\ (Abs(run.pid.integral_state) < Abs(run.twin.integral_state))
               <=> (run.twin.integral_state # 0)

C22_Witness ==
    /\ KeptSaturated
    /\ run.pid.integral_state = 0
    /\ run.twin.integral_state > 1

\* The latest call of a hold returned the upper (lower) output limit, on a
\* controller with Kc > 0 and tau_I > 0, the held error opposing it.
PinnedAtMax ==
    /\ run.phase = "hold" /\ run.error < 0 /\ run.last.made
    /\ run.pid.gains.Kc > 0 /\ run.pid.gains.tau_I > 0
    /\ run.last.ret = run.pid.max_output
PinnedAtMin ==
    /\ run.phase = "hold" /\ run.error > 0 /\ run.last.made
    /\ run.pid.gains.Kc > 0 /\ run.pid.gains.tau_I > 0
    /\ run.last.ret = run.pid.min_output

\* C29: a controller with Kc > 0 and tau_I > 0 cannot stay saturated forever
\* against an opposing error: once the output is pinned at maxOutput and
\* every later compute call has the same negative error and a positive dt,
\* some later call returns a value below maxOutput (and symmetrically for
\* minOutput with a constant positive error).
C29_SaturationEnds ==
    /\ PinnedAtMax ~> (run.phase = "hold" /\ run.last.made
                                           /\ run.last.ret < run.pid.max_output)
    /\ PinnedAtMin ~> (run.phase = "hold" /\ run.last.made
                                           /\ run.last.ret > run.pid.min_output)
====
